---- MODULE Spec2Model ----
(***************************************************************************)
(* A model of the bitarray crate (src/src/lib.rs): BitArray<B> over the    *)
(* five sealed Base widths, its constructors, get/set, Display, and the    *)
(* three iterators BitArrayIter, Ones and Zeroes.                          *)
(*                                                                         *)
(* A Base value (u8 .. u128) is modelled as a word: the sequence of its    *)
(* binary digits, least significant first, so that bit i of the integer is *)
(* element i + 1 of the sequence.  All arithmetic the crate performs on    *)
(* the integer (<<, &, |, !, >, the {:b} formatter) is defined on words.   *)
(***************************************************************************)
EXTENDS Integers, Sequences, FiniteSets

VARIABLES
    W,          \* B::max_len() of the Base the program is instantiated over
    checks,     \* the build's overflow checks: TRUE (debug) or FALSE (release)
    panicked,   \* the program has aborted with an arithmetic-overflow panic
    arr,        \* the client's BitArray<B> (its field .0)
    last,       \* history: the last operation called on arr, its inputs and result
    it,         \* the client's BitArrayIter<B>, or NoIter
    ones,       \* the client's Ones<B>, or NoOnes
    zeroes,     \* the client's Zeroes<B>, or NoOnes
    itG,        \* history of it: array at creation, items yielded, Nones returned
    onesG,      \* history of ones
    zeroesG,    \* history of zeroes
    pending,    \* indices yielded by ones and not yet set again on acc
    acc         \* the array the client rebuilds from the indices ones yields

vars == <<W, checks, panicked, arr, last, it, ones, zeroes, itG, onesG, zeroesG,
          pending, acc>>

-----------------------------------------------------------------------------
(* Bounds of the model *)

\* inputs to new are up to this many elements longer than the Base is wide
MaxExtra == 1
\* next is called at most this many times on an exhausted iterator
MaxPastEnd == 1

-----------------------------------------------------------------------------
(* Words: the unsigned integers the Base types are *)

Widths == {8, 16, 32, 64, 128}

U8Max == 255

Min(a, b) == IF a < b THEN a ELSE b

\* The word with the digits f[1] .. f[n], as a sequence
Word(f, n) == SubSeq(f, 1, n)

\* x << n on a word, for a shift amount n below the width
Shl(x, n) == Word([k \in 1..Len(x) |-> IF k > n THEN x[k - n] ELSE 0], Len(x))

\* x >> n on a word
Shr(x, n) == Word([k \in 1..Len(x) |-> IF k + n <= Len(x) THEN x[k + n] ELSE 0], Len(x))

BitAnd(x, y) ==
    Word([k \in 1..Len(x) |-> IF x[k] = 1 /\ y[k] = 1 THEN 1 ELSE 0], Len(x))

BitOr(x, y) ==
    Word([k \in 1..Len(x) |-> IF x[k] = 1 \/ y[k] = 1 THEN 1 ELSE 0], Len(x))

Not(x) == Word([k \in 1..Len(x) |-> 1 - x[k]], Len(x))

\* x > y on unsigned words: they differ, and at the highest differing digit x has the 1
Gt(x, y) ==
    \E k \in 1..Len(x) :
        /\ x[k] = 1
        /\ y[k] = 0
        /\ \A j \in (k + 1)..Len(x) : x[j] = y[j]

-----------------------------------------------------------------------------
(* trait Base *)

max_len(w) == w

max(w) == Word([k \in 1..w |-> 1], w)

zero(w) == Word([k \in 1..w |-> 0], w)

one(w) == Word([k \in 1..w |-> IF k = 1 THEN 1 ELSE 0], w)

\* `1 << index` aborts in a build with overflow checks when index >= the width
ShiftOverflows(w, index) == index >= w

\* `1 << index` where it does not abort: the shift amount is taken modulo the width
one_at_index(w, index) == Shl(one(w), index % w)

-----------------------------------------------------------------------------
(* impl BitArray *)

default(w) == zero(w)

\* A faulty all_one: the highest bit is left clear
all_one_low(w) == Shr(max(w), 1)

all_one(w) == max(w)

get(self, index) ==
    Gt(BitAnd(self, one_at_index(Len(self), index)), zero(Len(self)))

\* A faulty set: clearing ANDs with the mask itself, not with its complement
set_toggle(self, index, bit) ==
    IF bit
    THEN BitOr(self, one_at_index(Len(self), index))
    ELSE BitAnd(self, one_at_index(Len(self), index))

set(self, index, bit) ==
    IF bit
    THEN BitOr(self, one_at_index(Len(self), index))
    ELSE BitAnd(self, Not(one_at_index(Len(self), index)))

\* A source of bools handed to new: the finite sequence items, followed, when
\* endless is TRUE, by fill for ever (std::iter::repeat)
Source(items, endless, fill) == [items |-> items, endless |-> endless, fill |-> fill]

\* A faulty take: a finite source is consumed whole
Take_more(src, n) ==
    IF src.endless
    THEN [k \in 1..n |-> IF k <= Len(src.items) THEN src.items[k] ELSE src.fill]
    ELSE src.items

\* iter.into_iter().take(n), as the sequence of the items taken
Take(src, n) ==
    IF src.endless
    THEN [k \in 1..n |-> IF k <= Len(src.items) THEN src.items[k] ELSE src.fill]
    ELSE SubSeq(src.items, 1, Min(n, Len(src.items)))

\* .enumerate().for_each(|(i, b)| arr.set(i as u8, b)) over items lo..hi, in
\* order: the items of the lower half first, then those of the upper half (the
\* test on lower makes TLC compute it before it descends into the upper half)
RECURSIVE ForEachSet(_, _, _, _)
ForEachSet(a, items, lo, hi) ==
    IF lo > hi
    THEN a
    ELSE IF lo = hi
         THEN set(a, (lo - 1) % (U8Max + 1), items[lo])
         ELSE LET mid == (lo + hi) \div 2
                  lower == ForEachSet(a, items, lo, mid)
              IN  IF Len(lower) = Len(a)
                  THEN ForEachSet(lower, items, mid + 1, hi)
                  ELSE lower

new(w, src) ==
    LET items == Take(src, max_len(w))
    IN  ForEachSet(default(w), items, 1, Len(items))

\* Does any set call of new abort?  (i as u8 is below max_len for every item taken)
NewOverflows(w, src) ==
    \E k \in 1..Len(Take(src, max_len(w))) : ShiftOverflows(w, (k - 1) % (U8Max + 1))

-----------------------------------------------------------------------------
(* impl Display: write!(f, "{:b}", self.0) *)

Digit(d) == IF d = 1 THEN "1" ELSE "0"

\* The binary formatter's loop emits the digit x % 2 and divides x by 2 until x is
\* 0, at least once: round j emits digit j of x, and the rounds are those up to the
\* first j with x >> (j + 1) = 0
FmtRounds(x) ==
    CHOOSE n \in 1..Len(x) :
        /\ Shr(x, n) = zero(Len(x))
        /\ \A m \in 1..(n - 1) : Shr(x, m) # zero(Len(x))

\* The digits are written from the end of the buffer: the last one emitted is first
FmtBinary(x) ==
    LET n == FmtRounds(x)
    IN  [k \in 1..n |-> Digit(Shr(x, n - k)[1])]

\* A faulty Display: all max_len digits, leading zeroes included
to_string_padded(self) == [k \in 1..Len(self) |-> Digit(self[Len(self) + 1 - k])]

to_string(self) == FmtBinary(self)

-----------------------------------------------------------------------------
(* The iterators.  A call of next is modelled by what it leaves behind: the   *)
(* iterator after the call, the Option returned (<<>> for None, <<x>> for     *)
(* Some(x)), whether the call aborted on an arithmetic overflow, and the      *)
(* highest index it passed to get (-1 if none).                               *)

Max(a, b) == IF a > b THEN a ELSE b

Ret(self, item, panic, got) == [self |-> self, item |-> item, panic |-> panic, got |-> got]

\* A faulty BitArrayIter::new: the iterator is built over a default array
BitArrayIter_new_default(array) == [array |-> default(Len(array)), counter |-> 0]

BitArrayIter_new(array) == [array |-> array, counter |-> 0]

\* A faulty BitArrayIter::next: the end test is one item early
BitArrayIter_next_short(self) ==
    IF self.counter = max_len(Len(self.array)) - 1
    THEN Ret(self, <<>>, FALSE, -1)
    ELSE Ret([self EXCEPT !.counter = self.counter + 1],
             <<get(self.array, self.counter)>>, FALSE, self.counter)

\* A faulty BitArrayIter::next: no end test
BitArrayIter_next_unchecked(self) ==
    IF checks /\ (ShiftOverflows(Len(self.array), self.counter) \/ self.counter = U8Max)
    THEN Ret(self, <<>>, TRUE, self.counter)
    ELSE Ret([self EXCEPT !.counter = (self.counter + 1) % (U8Max + 1)],
             <<get(self.array, self.counter)>>, FALSE, self.counter)

BitArrayIter_next(self) ==
    IF self.counter = max_len(Len(self.array))
    THEN Ret(self, <<>>, FALSE, -1)
    ELSE IF checks /\ ShiftOverflows(Len(self.array), self.counter)
         THEN \* get aborts in `1 << index`
              Ret(self, <<>>, TRUE, self.counter)
         ELSE LET item == get(self.array, self.counter)
              IN  IF checks /\ self.counter = U8Max
                  THEN \* self.counter += 1 aborts
                       Ret(self, <<>>, TRUE, self.counter)
                  ELSE Ret([self EXCEPT !.counter = (self.counter + 1) % (U8Max + 1)],
                           <<item>>, FALSE, self.counter)

Ones_new(array) == [counter |-> 0, inner |-> BitArrayIter_new(array)]

Zeroes_new(array) == [counter |-> 0, inner |-> BitArrayIter_new(array)]

\* One round of the loop of Ones::next (bit = TRUE) and of Zeroes::next (bit =
\* FALSE), on s = the iterator so far with done |-> the loop has been left
ScanRound(s, bit) ==
    IF s.done
    THEN s
    ELSE IF s.self.counter = max_len(Len(s.self.inner.array))
         THEN [s EXCEPT !.done = TRUE, !.item = <<>>]
         ELSE LET elem == BitArrayIter_next(s.self.inner)
                  index == s.self.counter
                  got == Max(s.got, elem.got)
              IN  IF elem.panic
                  THEN [s EXCEPT !.done = TRUE, !.panic = TRUE, !.got = got]
                  ELSE IF checks /\ index = U8Max
                       THEN \* self.counter += 1 aborts
                            [s EXCEPT !.done = TRUE, !.panic = TRUE, !.got = got,
                                      !.self.inner = elem.self]
                       ELSE LET after == [counter |-> (index + 1) % (U8Max + 1),
                                          inner |-> elem.self]
                            IN  IF elem.item = <<bit>>
                                THEN [self |-> after, item |-> <<index>>, panic |-> FALSE,
                                      got |-> got, done |-> TRUE]
                                ELSE [s EXCEPT !.self = after, !.got = got]

\* n rounds of the loop, the first half of them before the second (the test on
\* first makes TLC compute it before it descends into the second half)
RECURSIVE ScanLoop(_, _, _)
ScanLoop(s, bit, n) ==
    IF n <= 1
    THEN ScanRound(s, bit)
    ELSE LET first == ScanLoop(s, bit, n \div 2)
         IN  IF first.done THEN first ELSE ScanLoop(first, bit, n - (n \div 2))

\* The loop is left within U8Max + 1 rounds: the cursor, which every round that
\* stays in the loop advances by one modulo U8Max + 1, reaches max_len by then
Scan(self, bit) ==
    LET s == ScanLoop([self |-> self, item |-> <<>>, panic |-> FALSE, got |-> -1,
                       done |-> FALSE], bit, U8Max + 1)
    IN  Ret(s.self, s.item, s.panic, s.got)

\* A faulty Ones::next: it looks for false bits
Ones_next_zeroes(self) == Scan(self, FALSE)

Ones_next(self) == Scan(self, TRUE)

\* A faulty Zeroes::next: it looks for true bits
Zeroes_next_ones(self) == Scan(self, TRUE)

Zeroes_next(self) == Scan(self, FALSE)

-----------------------------------------------------------------------------
(* Values of the variables that hold no object *)

\* the client has not constructed its array yet
NoArray == <<>>

NoIter == [array |-> <<>>, counter |-> 0]

NoOnes == [counter |-> 0, inner |-> NoIter]

\* The history of an iterator: the array it was created from, the items it has
\* yielded, how often it has returned None, the highest index it passed to get
Hist(snap, out, nones, got) == [snap |-> snap, out |-> out, nones |-> nones, got |-> got]

NoHist == Hist(<<>>, <<>>, 0, -1)

NoSource == Source(<<>>, FALSE, FALSE)

Call(op, src, index, bit, before, outBit, outStr) ==
    [op |-> op, src |-> src, index |-> index, bit |-> bit, before |-> before,
     outBit |-> outBit, outStr |-> outStr]

-----------------------------------------------------------------------------
(* The inputs the client draws from *)

AllTrue(n) == [k \in 1..n |-> TRUE]

\* false for the first w items, true from there on
FalseThenTrue(w, n) == [k \in 1..n |-> k > w]

\* true, false, true, false, ... (tests::ones_work)
Alternating(n) == [k \in 1..n |-> k % 2 = 1]

\* [true, false, false, false, false, true, true, true], repeated (tests::new_works)
TestBits(n) == [k \in 1..n |-> (k - 1) % 8 \in {0, 5, 6, 7}]

Lengths(w) == {0, 8, w - 1} \cup (w..(w + MaxExtra))

Inputs(w) ==
    {Source(f, FALSE, FALSE) :
        f \in UNION {{AllTrue(n), FalseThenTrue(w, n), Alternating(n), TestBits(n)} :
                        n \in Lengths(w)}}
    \cup {Source(<<>>, TRUE, TRUE), Source(<<>>, TRUE, FALSE),
          Source(<<FALSE, TRUE>>, TRUE, TRUE)}

\* indices below max_len: all of them for u8, the ends and the middle otherwise
ValidIdx(w) == IF w = 8 THEN 0..(w - 1) ELSE {0, w \div 2, w - 1}

\* u8 indices that are not below max_len
OutIdx(w) == {w, U8Max}

-----------------------------------------------------------------------------
(* The client's calls on its array *)

IterIdle ==
    UNCHANGED <<it, ones, zeroes, itG, onesG, zeroesG, pending, acc>>

Default ==
    /\ ~panicked
    /\ arr = NoArray
    /\ arr' = default(W)
    /\ last' = Call("default", NoSource, 0, FALSE, <<>>, FALSE, <<>>)
    /\ UNCHANGED <<W, checks, panicked>>
    /\ IterIdle

New(src) ==
    /\ ~panicked
    /\ arr = NoArray
    /\ IF checks /\ NewOverflows(W, src)
       THEN panicked' = TRUE /\ UNCHANGED <<arr, last>>
       ELSE /\ arr' = new(W, src)
            /\ last' = Call("new", src, 0, FALSE, <<>>, FALSE, <<>>)
            /\ UNCHANGED panicked
    /\ UNCHANGED <<W, checks>>
    /\ IterIdle

AllOne ==
    /\ ~panicked
    /\ arr = NoArray
    /\ arr' = all_one(W)
    /\ last' = Call("all_one", NoSource, 0, FALSE, <<>>, FALSE, <<>>)
    /\ UNCHANGED <<W, checks, panicked>>
    /\ IterIdle

Get(index) ==
    /\ ~panicked
    /\ arr # NoArray
    /\ IF checks /\ ShiftOverflows(W, index)
       THEN panicked' = TRUE /\ UNCHANGED last
       ELSE /\ last' = Call("get", NoSource, index, FALSE, <<>>, get(arr, index), <<>>)
            /\ UNCHANGED panicked
    /\ UNCHANGED <<W, checks, arr>>
    /\ IterIdle

Set(index, bit) ==
    /\ ~panicked
    /\ arr # NoArray
    /\ IF checks /\ ShiftOverflows(W, index)
       THEN panicked' = TRUE /\ UNCHANGED <<arr, last>>
       ELSE /\ arr' = set(arr, index, bit)
            /\ last' = Call("set", NoSource, index, bit, arr, FALSE, <<>>)
            /\ UNCHANGED panicked
    /\ UNCHANGED <<W, checks>>
    /\ IterIdle

Display ==
    /\ ~panicked
    /\ arr # NoArray
    /\ last' = Call("to_string", NoSource, 0, FALSE, <<>>, FALSE, to_string(arr))
    /\ UNCHANGED <<W, checks, panicked, arr>>
    /\ IterIdle

Init ==
    /\ W \in Widths
    /\ checks \in BOOLEAN
    /\ panicked = FALSE
    /\ arr = NoArray
    /\ last = Call("start", NoSource, 0, FALSE, <<>>, FALSE, <<>>)
    /\ it = NoIter
    /\ ones = NoOnes
    /\ zeroes = NoOnes
    /\ itG = NoHist
    /\ onesG = NoHist
    /\ zeroesG = NoHist
    /\ pending = {}
    /\ acc = <<>>

Next ==
    \/ Default
    \/ \E src \in Inputs(W) : New(src)
    \/ AllOne
    \/ \E index \in ValidIdx(W) \cup OutIdx(W) : Get(index)
    \/ \E index \in ValidIdx(W) \cup OutIdx(W), bit \in BOOLEAN : Set(index, bit)
    \/ Display

Spec == Init /\ [][Next]_vars

-----------------------------------------------------------------------------
(* The client's iterators.  The client holds at most two iterators at a time *)
(* and drives them one after the other: it calls next on an iterator only    *)
(* while no other iterator is part-way through its items.  set calls on the  *)
(* array interleave freely with all of it.                                   *)

\* the sources the arrays under iteration are built from
IterInputs(w) ==
    {Source(TestBits(w), FALSE, FALSE)}
    \cup (IF w = 8 THEN {Source(Alternating(w), FALSE, FALSE)} ELSE {})

\* the index the client sets while iterators are alive: the last one, which no
\* iterator has passed before it is exhausted
IterSetIdx(w) == {w - 1}

\* the sources of the arrays rebuilt from their ones
RoundTripInputs(w) ==
    {Source(f, FALSE, FALSE) : f \in {<<>>, AllTrue(3), TestBits(8), FalseThenTrue(w - 2, w)}}
    \cup (IF w = 8
          THEN {Source(Alternating(w), FALSE, FALSE), Source(<<>>, TRUE, TRUE)}
          ELSE {})

\* has yielded an item and has not returned None yet
MidFlight(h) == Len(h.out) > 0 /\ h.nones = 0

After(h, r) ==
    [h EXCEPT !.out = IF r.item = <<>> THEN @ ELSE @ \o r.item,
              !.nones = IF r.item = <<>> /\ ~r.panic THEN @ + 1 ELSE @,
              !.got = Max(@, r.got)]

\* a.set(index, bit) on the array the iterators were created from
Mutate(index, bit) ==
    /\ ~panicked
    /\ arr # NoArray
    /\ IF checks /\ ShiftOverflows(W, index)
       THEN panicked' = TRUE /\ UNCHANGED arr
       ELSE arr' = set(arr, index, bit) /\ UNCHANGED panicked
    /\ UNCHANGED <<W, checks, last>>
    /\ IterIdle

CallIter ==
    /\ ~panicked
    /\ arr # NoArray
    /\ it = NoIter
    /\ ones = NoOnes \/ zeroes = NoOnes
    /\ it' = BitArrayIter_new(arr)
    /\ itG' = Hist(arr, <<>>, 0, -1)
    /\ UNCHANGED <<W, checks, panicked, arr, last, ones, zeroes, onesG, zeroesG,
                   pending, acc>>

CallOnes ==
    /\ ~panicked
    /\ arr # NoArray
    /\ ones = NoOnes
    /\ it = NoIter \/ zeroes = NoOnes
    /\ ones' = Ones_new(arr)
    /\ onesG' = Hist(arr, <<>>, 0, -1)
    /\ UNCHANGED <<W, checks, panicked, arr, last, it, zeroes, itG, zeroesG,
                   pending, acc>>

CallZeroes ==
    /\ ~panicked
    /\ arr # NoArray
    /\ zeroes = NoOnes
    /\ it = NoIter \/ ones = NoOnes
    /\ zeroes' = Zeroes_new(arr)
    /\ zeroesG' = Hist(arr, <<>>, 0, -1)
    /\ UNCHANGED <<W, checks, panicked, arr, last, it, ones, itG, onesG,
                   pending, acc>>

NextIter ==
    /\ ~panicked
    /\ it # NoIter
    /\ itG.nones <= MaxPastEnd
    /\ ~MidFlight(onesG) /\ ~MidFlight(zeroesG)
    /\ LET r == BitArrayIter_next(it)
       IN  /\ it' = r.self
           /\ itG' = After(itG, r)
           /\ panicked' = r.panic
    /\ UNCHANGED <<W, checks, arr, last, ones, zeroes, onesG, zeroesG, pending, acc>>

NextOnes ==
    /\ ~panicked
    /\ ones # NoOnes
    /\ onesG.nones <= MaxPastEnd
    /\ ~MidFlight(itG) /\ ~MidFlight(zeroesG)
    /\ LET r == Ones_next(ones)
       IN  /\ ones' = r.self
           /\ onesG' = After(onesG, r)
           /\ panicked' = r.panic
           /\ pending' = pending \cup {r.item[k] : k \in 1..Len(r.item)}
    /\ UNCHANGED <<W, checks, arr, last, it, zeroes, itG, zeroesG, acc>>

NextZeroes ==
    /\ ~panicked
    /\ zeroes # NoOnes
    /\ zeroesG.nones <= MaxPastEnd
    /\ ~MidFlight(itG) /\ ~MidFlight(onesG)
    /\ LET r == Zeroes_next(zeroes)
       IN  /\ zeroes' = r.self
           /\ zeroesG' = After(zeroesG, r)
           /\ panicked' = r.panic
    /\ UNCHANGED <<W, checks, arr, last, it, ones, itG, onesG, pending, acc>>

\* acc.set(index, true) for an index that ones has yielded
Reapply(index) ==
    /\ ~panicked
    /\ index \in pending
    /\ pending' = pending \ {index}
    /\ IF checks /\ ShiftOverflows(W, index)
       THEN panicked' = TRUE /\ UNCHANGED acc
       ELSE acc' = set(acc, index, TRUE) /\ UNCHANGED panicked
    /\ UNCHANGED <<W, checks, arr, last, it, ones, zeroes, itG, onesG, zeroesG>>

\* The client has built its array with new, and a default array to rebuild into
InitFrom(inputs) ==
    /\ W \in Widths
    /\ checks \in BOOLEAN
    /\ panicked = FALSE
    /\ \E src \in inputs :
          /\ arr = new(W, src)
          /\ last = Call("new", src, 0, FALSE, <<>>, FALSE, <<>>)
    /\ it = NoIter
    /\ ones = NoOnes
    /\ zeroes = NoOnes
    /\ itG = NoHist
    /\ onesG = NoHist
    /\ zeroesG = NoHist
    /\ pending = {}
    /\ acc = default(W)

InitIter ==
    /\ W \in Widths
    /\ InitFrom(IterInputs(W))

NextIterators ==
    \/ \E index \in IterSetIdx(W), bit \in BOOLEAN : Mutate(index, bit)
    \/ CallIter
    \/ CallOnes
    \/ CallZeroes
    \/ NextIter
    \/ NextOnes
    \/ NextZeroes

SpecIter == InitIter /\ [][NextIterators]_vars

InitRoundTrip ==
    /\ W \in Widths
    /\ InitFrom(RoundTripInputs(W))

NextRoundTrip ==
    \/ CallOnes
    \/ NextOnes
    \/ \E index \in pending : Reapply(index)

SpecRoundTrip == InitRoundTrip /\ [][NextRoundTrip]_vars

-----------------------------------------------------------------------------
(* Claims about the constructors, get, set and Display *)

\* Item i (from 0) of a source, and whether the source has it
HasItem(src, i) == src.endless \/ i < Len(src.items)

ItemAt(src, i) == IF i < Len(src.items) THEN src.items[i + 1] ELSE src.fill

\* C1: new(S) never fails, and for every index i below the width, get(i) of the
\* array it returns is S[i] when S has an item i and false otherwise, whether S
\* is shorter than, as long as or longer than the width
C1_NewTruncatesAndPads ==
    /\ (arr = NoArray => ~panicked)
    /\ (last.op = "new" =>
            \A i \in 0..(W - 1) :
                get(arr, i) = (HasItem(last.src, i) /\ ItemAt(last.src, i)))

C1_Witness ==
    /\ last.op = "new"
    /\ W = 128
    /\ last.src = Source(FalseThenTrue(W, W + 1), FALSE, FALSE)
    /\ ~get(arr, 0)

\* C2: after set(i, b) with i below the width, get(i) is b and get(j) is what it
\* was before the call for every other index j below the width
C2_SetGetFrame ==
    (last.op = "set" /\ last.index < W) =>
        /\ get(arr, last.index) = last.bit
        /\ \A j \in (0..(W - 1)) \ {last.index} : get(arr, j) = get(last.before, j)

C2_Witness ==
    /\ last.op = "set"
    /\ W = 64
    /\ last.index = W - 1
    /\ ~last.bit
    /\ get(last.before, last.index)
    /\ get(last.before, 0)

\* C3: all_one() has every bit below the width true and is the array new returns
\* for an all-true source at least as long as the width, endless ones included;
\* default() has every bit false
C3_AllOneAndDefault ==
    /\ (last.op = "all_one" =>
            /\ \A i \in 0..(W - 1) : get(arr, i)
            /\ arr = new(W, Source(<<>>, TRUE, TRUE))
            /\ \A n \in W..(W + MaxExtra) : arr = new(W, Source(AllTrue(n), FALSE, FALSE)))
    /\ (last.op = "default" => \A i \in 0..(W - 1) : ~get(arr, i))

C3_Witness == last.op = "all_one" /\ W = 128 /\ get(arr, W - 1)

HighestSet(a) == CHOOSE h \in 0..(Len(a) - 1) : get(a, h) /\ \A j \in (h + 1)..(Len(a) - 1) : ~get(a, j)

\* The integer a word of up to 16 digits is
RECURSIVE ValueOf(_, _)
ValueOf(x, k) == IF k > Len(x) THEN 0 ELSE x[k] + 2 * ValueOf(x, k + 1)

\* The integer a string of binary digits denotes, most significant digit first
RECURSIVE ParseBinary(_, _)
ParseBinary(str, k) ==
    IF k = 0 THEN 0 ELSE (IF str[k] = "1" THEN 1 ELSE 0) + 2 * ParseBinary(str, k - 1)

\* C9: to_string() is the binary numeral of the underlying integer, most
\* significant digit first and without leading zeroes: "0" for the all-false
\* array, and otherwise (highest set index + 1) digits of which the one at
\* position p from the right is "1" exactly when get(p)
C9_DisplayIsBinary ==
    last.op = "to_string" =>
        LET str == last.outStr
        IN  /\ \A k \in 1..Len(str) : str[k] \in {"0", "1"}
            /\ IF \A i \in 0..(W - 1) : ~get(arr, i)
               THEN str = <<"0">>
               ELSE /\ Len(str) = HighestSet(arr) + 1
                    /\ \A p \in 0..HighestSet(arr) : (str[Len(str) - p] = "1") <=> get(arr, p)
            /\ (W <= 16 => ParseBinary(str, Len(str)) = ValueOf(arr, 1))
            /\ (arr = new(W, Source(TestBits(8), FALSE, FALSE)) =>
                    str = <<"1", "1", "1", "0", "0", "0", "0", "1">>)

C9_Witness ==
    /\ last.op = "to_string"
    /\ W = 64
    /\ arr = new(W, Source(TestBits(8), FALSE, FALSE))
    /\ Len(last.outStr) = 8

-----------------------------------------------------------------------------
(* Claims about the iterators *)

\* Bit i of the integer an array holds
Bit(a, i) == a[i + 1] = 1

\* The indices 0 .. n - 1 in ascending order
Indices(n) == [k \in 1..n |-> k - 1]

\* C4: iter() yields the bits of the array it was created from in ascending
\* index order, item k being get(k): exactly max_len of them, then None, and
\* None again on every later call, with the cursor staying at max_len
C4_IterYieldsAllBits ==
    it # NoIter =>
        /\ Len(itG.out) <= W
        /\ \A k \in 1..Len(itG.out) : itG.out[k] = Bit(itG.snap, k - 1)
        /\ (Len(itG.out) > 0 =>
                itG.out[Len(itG.out)] = get(itG.snap, Len(itG.out) - 1))
        /\ it.counter = Len(itG.out)
        /\ (itG.nones > 0 => Len(itG.out) = W /\ it.counter = W)

C4_Witness ==
    /\ W = 128
    /\ it # NoIter
    /\ itG.nones = 1 + MaxPastEnd
    /\ Len(itG.out) = W
    /\ itG.out[1]
    /\ ~itG.out[2]

\* C5: ones() yields, strictly ascending and each once, exactly the indices
\* below max_len whose bit is true, and zeroes() those whose bit is false; for
\* one array the two sets are disjoint and together are 0 .. max_len - 1
C5_OnesAndZeroesPartition ==
    /\ ones # NoOnes =>
          /\ onesG.out = SelectSeq(Indices(ones.counter), LAMBDA i : Bit(onesG.snap, i))
          /\ \A k \in 1..(Len(onesG.out) - 1) : onesG.out[k] < onesG.out[k + 1]
          /\ (Len(onesG.out) > 0 => get(onesG.snap, onesG.out[Len(onesG.out)]))
          /\ (onesG.nones > 0 => ones.counter = W)
    /\ zeroes # NoOnes =>
          /\ zeroesG.out = SelectSeq(Indices(zeroes.counter), LAMBDA i : ~Bit(zeroesG.snap, i))
          /\ \A k \in 1..(Len(zeroesG.out) - 1) : zeroesG.out[k] < zeroesG.out[k + 1]
          /\ (Len(zeroesG.out) > 0 => ~get(zeroesG.snap, zeroesG.out[Len(zeroesG.out)]))
          /\ (zeroesG.nones > 0 => zeroes.counter = W)
    /\ (/\ ones # NoOnes /\ onesG.nones > 0
        /\ zeroes # NoOnes /\ zeroesG.nones > 0
        /\ onesG.snap = zeroesG.snap) =>
          LET os == {onesG.out[k] : k \in 1..Len(onesG.out)}
              zs == {zeroesG.out[k] : k \in 1..Len(zeroesG.out)}
          IN  /\ os \cap zs = {}
              /\ os \cup zs = 0..(W - 1)
              /\ (W = 8 /\ onesG.snap = new(8, Source(Alternating(8), FALSE, FALSE)) =>
                      /\ onesG.out = <<0, 2, 4, 6>>
                      /\ zeroesG.out = <<1, 3, 5, 7>>)

C5_Witness ==
    /\ W = 8
    /\ ones # NoOnes /\ onesG.nones > 0
    /\ zeroes # NoOnes /\ zeroesG.nones > 0
    /\ onesG.out = <<0, 2, 4, 6>>
    /\ zeroesG.out = <<1, 3, 5, 7>>

\* C6: setting to true, on a default array and in any order, every index that
\* a.ones() yields gives an array equal to a; and two arrays are equal exactly
\* when get agrees on every index below max_len
C6_OnesRoundTrip ==
    ones # NoOnes =>
        /\ (onesG.nones > 0 /\ pending = {}) => acc = onesG.snap
        /\ (acc = onesG.snap) <=> (\A i \in 0..(W - 1) : get(acc, i) = get(onesG.snap, i))

C6_Witness ==
    /\ W = 128
    /\ ones # NoOnes
    /\ onesG.nones > 0
    /\ pending = {}
    /\ onesG.out = <<W - 2, W - 1>>
    /\ acc = arr

\* C7 (state part): every iterator holds the array as it was when the iterator
\* was created and yields from that, whatever has been set on the array since
C7_Snapshot ==
    /\ it # NoIter =>
          /\ it.array = itG.snap
          /\ \A k \in 1..Len(itG.out) : itG.out[k] = Bit(itG.snap, k - 1)
          /\ (itG.nones > 0 => Len(itG.out) = W)
    /\ ones # NoOnes =>
          /\ ones.inner.array = onesG.snap
          /\ \A i \in 0..(ones.counter - 1) :
                Bit(onesG.snap, i) <=> \E k \in 1..Len(onesG.out) : onesG.out[k] = i
          /\ (onesG.nones > 0 => ones.counter = W)
    /\ zeroes # NoOnes =>
          /\ zeroes.inner.array = zeroesG.snap
          /\ \A i \in 0..(zeroes.counter - 1) :
                ~Bit(zeroesG.snap, i) <=> \E k \in 1..Len(zeroesG.out) : zeroesG.out[k] = i
          /\ (zeroesG.nones > 0 => zeroes.counter = W)

\* C7 (step part): a call of next changes the iterator it is called on and
\* nothing else, and a call of set changes the array and no iterator
C7_Frame ==
    /\ it' # it => UNCHANGED <<arr, ones, zeroes>>
    /\ ones' # ones => UNCHANGED <<arr, it, zeroes>>
    /\ zeroes' # zeroes => UNCHANGED <<arr, it, ones>>
    /\ arr' # arr => UNCHANGED <<it, ones, zeroes>>

\* C7: under any interleaving of set calls on the array with next calls on an
\* iterator created from it, the iterator yields what the array held when the
\* iterator was created, and next changes neither the array nor another iterator
C7_SnapshotIsolation == []C7_Snapshot /\ [][C7_Frame]_vars

C7_Witness ==
    /\ W = 64
    /\ it # NoIter /\ itG.nones > 0
    /\ arr # itG.snap
    /\ itG.out[W] # get(arr, W - 1)
    /\ zeroes # NoOnes /\ zeroesG.nones > 0
    /\ zeroesG.snap # itG.snap

\* C10: every cursor stays within 0 .. max_len, the cursor of Ones and of Zeroes
\* equals that of its inner BitArrayIter, no iterator passes get an index that
\* is not below max_len, and no cursor increment overflows
C10_CursorInvariant ==
    /\ ~panicked
    /\ it # NoIter => it.counter \in 0..W /\ itG.got < W
    /\ ones # NoOnes =>
          /\ ones.counter \in 0..W
          /\ ones.counter = ones.inner.counter
          /\ onesG.got < W
    /\ zeroes # NoOnes =>
          /\ zeroes.counter \in 0..W
          /\ zeroes.counter = zeroes.inner.counter
          /\ zeroesG.got < W

C10_Witness ==
    /\ W = 128
    /\ ones # NoOnes
    /\ ones.counter = W
    /\ onesG.nones = 1 + MaxPastEnd
    /\ onesG.got = W - 1
    /\ it # NoIter
    /\ it.counter = W

====
